---- MODULE Spec2Model ----
(***************************************************************************)
(* TOBIAS ClusterMotifs (src/tobias/motifs/motif_clust.py).                *)
(*                                                                         *)
(* Spec     : generate_similarity_matrix -> get_dissimilar_motifs ->       *)
(*            cluster_motifs, as run_motifclust calls them.                *)
(* SpecCons : generate_consensus_motifs / generate_consensus_motif and     *)
(*            consensus_motif_out_wrapper on a ClusterAssignment.          *)
(*                                                                         *)
(* Numbers.  A similarity is an integer number of 1/10000; a distance and  *)
(* the threshold are integer numbers of 1/1000 (the code rounds distances  *)
(* to 3 decimals).  An identifier is a sequence of characters, so that the *)
(* tab replacement and the "_" concatenations are computed, not assumed.   *)
(* A python dict is a record [keys |-> <<k1, ..>>, val |-> [k |-> v]]: its *)
(* keys in insertion order and its mapping.                                *)
(***************************************************************************)
EXTENDS Integers, Sequences, FiniteSets, TLC

VARIABLES
    pc,                 \* position in the run
    error,              \* the exception that ended the run, or "none"
    heap,               \* the Motif objects: heap[ref] = [id |-> .., pfm |-> ..]
    motif_list,         \* run_motifclust's motif_list: a list of object references
    score_dict,         \* the ScoreMap of mc.get_all_scores(motif_list, motif_list)
    threshold,          \* args.threshold
    method,             \* args.clust_method
    similarity_matrix,  \* the DataFrame of generate_similarity_matrix
    dissimilar_motifs,  \* the list of get_dissimilar_motifs
    labels,             \* the flat cluster numbers of fcluster
    clusters,           \* the ClusterAssignment of get_cluster
    consensus_motifs,   \* the dict of generate_consensus_motifs
    cur,                \* position of the cluster generate_consensus_motifs works on
    motifs,             \* the working list of generate_consensus_motif
    sim_dict,           \* the ScoreMap the current level of generate_consensus_motif reads
    start_len,          \* length of the list generate_consensus_motif was first called with
    level,              \* recursion depth of generate_consensus_motif in this cluster
    last                \* what the last merge selected and passed to average_motifs

vars == <<pc, error, heap, motif_list, score_dict, threshold, method,
          similarity_matrix, dissimilar_motifs, labels, clusters,
          consensus_motifs, cur, motifs, sim_dict, start_len, level, last>>

matrix_vars == <<threshold, method, similarity_matrix, dissimilar_motifs, labels>>
cons_vars == <<consensus_motifs, cur, motifs, sim_dict, start_len, level, last>>

-----------------------------------------------------------------------------
(* Bounds *)

MaxMotifs == 3

-----------------------------------------------------------------------------
(* Generic helpers *)

Range(s) == {s[i] : i \in 1..Len(s)}

Reverse(s) == [i \in 1..Len(s) |-> s[Len(s) + 1 - i]]

Range2(f) == {f[x] : x \in DOMAIN f}

\* the empty python dict, and d[k] = v (a new key is appended to the key order)
EmptyDict == [keys |-> <<>>, val |-> <<>>]

DictSet(d, k, v) ==
    [keys |-> IF k \in Range(d.keys) THEN d.keys ELSE Append(d.keys, k),
     val  |-> [x \in Range(d.keys) \cup {k} |-> IF x = k THEN v ELSE d.val[x]]]

Has(d, k) == k \in Range(d.keys)

-----------------------------------------------------------------------------
(* Identifiers *)

TAB == "\t"
SP == " "

ReplaceNothing(s) == s

\* s.replace('\t', ' ')
ReplaceTab(s) == [i \in 1..Len(s) |-> IF s[i] = TAB THEN SP ELSE s[i]]

\* The identifiers of the motifs read; the first n of them form a run's motif set.
\* They stay pairwise distinct when tabs are replaced (the data model's uniqueness).
MotifPool == << <<"A">>, <<"B", TAB, "1">>, <<"C">>, <<"D", TAB, TAB>>, <<"E">>, <<"F">> >>

MotifIds(n) == SubSeq(MotifPool, 1, n)

-----------------------------------------------------------------------------
(* The ScoreMap: mc.get_all_scores and its bounded inputs *)

\* A PairwiseScore is <<similarity, offset, orientation>>.
Score(sim, pos, orient) == <<sim, pos, orient>>

\* (similarity(a,b), similarity(b,a)) of two different motifs, a before b.
\* 0.9003/0.9003 gives distance 0.0997 -> 0.1; 0.2/0.7992 gives 0.5004 -> 0.5;
\* 0.1/0.3 gives 0.8; 0.9003/0.2 gives 0.44985 -> 0.45.  No mean is a rounding tie.
PairSims == { <<9003, 9003>>, <<2000, 7992>>, <<1000, 3000>> }

\* self-similarity: 1 (distance 0) or 0.2 (distance 0.8)
DiagSims == {10000, 2000}

UnorderedPairs(n) == {p \in (1..n) \X (1..n) : p[1] < p[2]}

\* keys in list order; rev2 reverses the key order of the second level
FullScoreMap(ids, pairsim, diagsim, rev2) ==
    LET n == Len(ids)
        k2 == IF rev2 THEN Reverse(ids) ELSE ids
        idx(a) == CHOOSE i \in 1..n : ids[i] = a
        sim(a, b) == IF idx(a) = idx(b) THEN diagsim[idx(a)]
                     ELSE IF idx(a) < idx(b) THEN pairsim[<<idx(a), idx(b)>>][1]
                     ELSE pairsim[<<idx(b), idx(a)>>][2]
    IN [keys |-> ids,
        val  |-> [a \in Range(ids) |->
                    [keys |-> k2,
                     val  |-> [b \in Range(ids) |-> Score(sim(a, b), 0, 1)]]]]

\* the ScoreMap with the second-level dict of entry e cut down to the keys in keep,
\* and given the additional keys in extra
RaggedScoreMap(sd, e, keep, extra) ==
    LET old == sd.val[sd.keys[e]]
        k2 == SelectSeq(old.keys, LAMBDA k : k \in keep) \o extra
    IN [sd EXCEPT !.val[sd.keys[e]] =
            [keys |-> k2,
             val  |-> [b \in Range(k2) |->
                        IF b \in Range(old.keys) THEN old.val[b] ELSE Score(2000, 0, 1)]]]

-----------------------------------------------------------------------------
(* generate_similarity_matrix *)

RoundedDistanceTruncated(s1, s2) == (20000 - (s1 + s2)) \div 20

RoundedSimilarity(s1, s2) == (s1 + s2) \div 20

\* round(1 - np.mean([s1, s2]), 3): s1, s2 in 1/10000, the result in 1/1000.
\* 20000 - (s1 + s2) is twice the distance in 1/10000, that is the distance in
\* 1/20000; rounded to the nearest multiple of 20, a tie going to the even one.
RoundedDistance(s1, s2) ==
    LET num == 20000 - (s1 + s2)
        q == num \div 20
        r == num % 20
    IN IF r < 10 THEN q
       ELSE IF r > 10 THEN q + 1
       ELSE IF q % 2 = 0 THEN q ELSE q + 1

\* a raised exception, and a normal return
Raise(e) == [ok |-> FALSE, err |-> e]
Return(v) == [ok |-> TRUE, value |-> v]

\* the lookups of line 198 for (m1, m2) and of line 201 for the label l2 succeed
CellLookupsOk(sd, simd, m1, m2, l2) ==
    Has(sd.val[m1], m2) /\ Has(sd, m2) /\ Has(sd.val[m2], m1) /\ Has(simd, l2)

CellWriteDirected(sd, simd, m1, m2, l1, l2) ==
    [simd EXCEPT !.val[l1] = DictSet(@, l2, RoundedDistance(sd.val[m1].val[m2][1], sd.val[m1].val[m2][1]))]

\* lines 198-201: the score of (m1, m2), written under [l1][l2] and then under [l2][l1]
CellWrite(sd, simd, m1, m2, l1, l2) ==
    [simd EXCEPT
        !.val[l1] = DictSet(@, l2, RoundedDistance(sd.val[m1].val[m2][1], sd.val[m2].val[m1][1])),
        !.val[l2] = DictSet(@, l1, RoundedDistance(sd.val[m1].val[m2][1], sd.val[m2].val[m1][1]))]

RECURSIVE MatrixLoop(_, _, _, _, _)
\* the double loop from its p-th iteration on (p counts from 0, row-major): the final
\* similarity_dict, or the KeyError of a failed lookup
MatrixLoop(sd, m1_keys, m2_keys, simd, p) ==
    LET n2 == Len(m2_keys)
        m1 == m1_keys[(p \div n2) + 1]
        m2 == m2_keys[(p % n2) + 1]
    IN IF p >= Len(m1_keys) * n2 THEN Return(simd)
       ELSE IF ~CellLookupsOk(sd, simd, m1, m2, ReplaceTab(m2)) THEN Raise("KeyError")
       ELSE MatrixLoop(sd, m1_keys, m2_keys,
                       CellWrite(sd, simd, m1, m2, ReplaceTab(m1), ReplaceTab(m2)), p + 1)

RECURSIVE DictFromKeys(_, _)
\* {m: {} for m in labels}
DictFromKeys(lbls, d) ==
    IF lbls = <<>> THEN d
    ELSE DictFromKeys(Tail(lbls), DictSet(d, Head(lbls), EmptyDict))

\* pd.DataFrame(similarity_dict_format, index = m2_labels): one column per key of the
\* dict, data[r][c] the r-th element of the c-th column's list
DataFrame(fmt, index) ==
    [columns |-> fmt.keys,
     index   |-> index,
     data    |-> [r \in 1..Len(index) |-> [c \in 1..Len(fmt.keys) |-> fmt.val[fmt.keys[c]][r]]]]

RECURSIVE FormatDict(_, _, _, _)
\* {m1: [similarity_dict[m1][m2] for m2 in m2_labels] for m1 in m1_labels}
FormatDict(simd, m1_labels, m2_labels, d) ==
    IF m1_labels = <<>> THEN d
    ELSE LET m1 == Head(m1_labels)
         IN FormatDict(simd, Tail(m1_labels), m2_labels,
                DictSet(d, m1, [r \in 1..Len(m2_labels) |-> simd.val[m1].val[m2_labels[r]]]))

\* lines 204-205 on the outcome r of the loop (.replace(-0, 0) leaves an integer
\* distance as it is)
FrameOf(r, m1_labels, m2_labels) ==
    IF ~r.ok THEN r
    ELSE Return(DataFrame(FormatDict(r.value, m1_labels, m2_labels, EmptyDict), m2_labels))

\* the DataFrame returned, or the KeyError raised
generate_similarity_matrix(sd) ==
    LET m1_keys == sd.keys
        m2_keys == sd.val[sd.keys[1]].keys
        m1_labels == [i \in 1..Len(m1_keys) |-> ReplaceTab(m1_keys[i])]
        m2_labels == [j \in 1..Len(m2_keys) |-> ReplaceTab(m2_keys[j])]
    IN CHOOSE out \in
        {FrameOf(r, m1_labels, m2_labels) :
            r \in {MatrixLoop(sd, m1_keys, m2_keys, DictFromKeys(m1_labels, EmptyDict), 0)}} : TRUE

NoFrame == [columns |-> <<>>, index |-> <<>>, data |-> <<>>]

ScoreMapRelabelled(sd) == [sd EXCEPT !.keys = [i \in 1..Len(sd.keys) |-> ReplaceTab(sd.keys[i])]]

\* the ScoreMap as the call leaves it: lines 188-205 assign only to the new dicts
\* similarity_dict and similarity_dict_format
ScoreMapAfter(sd) == sd

-----------------------------------------------------------------------------
(* get_dissimilar_motifs *)

ExceedsOrEquals(x, t) == x >= t

\* line 255: "matrix.iloc[:,col] > threshold"
Exceeds(x, t) == x > t

ColumnRangeAll(columns) == columns

\* line 254: "range(columns-1)", the number of columns the loop visits
ColumnRange(columns) == columns - 1

OthersExceed(matrix, col, t) ==
    \A r \in 1..Len(matrix.index) :
        matrix.index[r] # matrix.columns[col] => Exceeds(matrix.data[r][col], t)

\* lines 255-256: every entry of the column exceeds the threshold
AllExceed(matrix, col, t) == \A r \in 1..Len(matrix.index) : Exceeds(matrix.data[r][col], t)

RECURSIVE DissimilarFrom(_, _, _, _)
\* the loop "for col in range(columns-1)" from col on (col counts from 1 here)
DissimilarFrom(matrix, t, col, acc) ==
    IF col > ColumnRange(Len(matrix.columns)) THEN acc
    ELSE DissimilarFrom(matrix, t, col + 1,
            IF AllExceed(matrix, col, t)
            THEN Append(acc, matrix.columns[col]) ELSE acc)

get_dissimilar_motifs(matrix, t) == DissimilarFrom(matrix, t, 1, <<>>)

-----------------------------------------------------------------------------
(* cluster_motifs: squareform, linkage, fcluster (scipy), get_cluster *)

\* args.clust_method: the choices of line 59
ClustMethods == {"single", "complete", "average", "weighted", "centroid", "median", "ward"}

IsSquare(matrix) == Len(matrix.index) = Len(matrix.columns)

\* A cluster distance is an exact fraction <<num, den>>, den > 0, in lowest terms.
RECURSIVE GCD(_, _)
GCD(a, b) == IF b = 0 THEN a ELSE GCD(b, a % b)

Norm(x) ==
    LET g == GCD(IF x[1] < 0 THEN -x[1] ELSE x[1], x[2])
    IN IF g = 0 THEN x ELSE <<x[1] \div g, x[2] \div g>>

\* (k / d) * x, and x + y
FracScale(k, d, x) == Norm(<<k * x[1], d * x[2]>>)
FracAdd(x, y) == Norm(<<x[1] * y[2] + y[1] * x[2], x[2] * y[2]>>)

FracLeq(x, y) == x[1] * y[2] <= y[1] * x[2]

\* centroid, median and ward update squared distances; the value kept for them is the
\* square of the cluster distance
Squared(m) == m \in {"centroid", "median", "ward"}

\* scipy's distance update (Lance-Williams) for the cluster made of x and y, of sizes nx
\* and ny, and another cluster i of size ni: dxi, dyi, dxy are the values of the pairs
LanceWilliams(m, dxi, dyi, dxy, nx, ny, ni) ==
    CASE m = "single"   -> IF FracLeq(dxi, dyi) THEN dxi ELSE dyi
      [] m = "complete" -> IF FracLeq(dxi, dyi) THEN dyi ELSE dxi
      [] m = "average"  -> FracAdd(FracScale(nx, nx + ny, dxi), FracScale(ny, nx + ny, dyi))
      [] m = "weighted" -> FracAdd(FracScale(1, 2, dxi), FracScale(1, 2, dyi))
      [] m = "centroid" -> FracAdd(FracAdd(FracScale(nx, nx + ny, dxi), FracScale(ny, nx + ny, dyi)),
                                   FracScale(-(nx * ny), (nx + ny) * (nx + ny), dxy))
      [] m = "median"   -> FracAdd(FracAdd(FracScale(1, 2, dxi), FracScale(1, 2, dyi)),
                                   FracScale(-1, 4, dxy))
      [] m = "ward"     -> FracAdd(FracAdd(FracScale(nx + ni, nx + ny + ni, dxi),
                                           FracScale(ny + ni, nx + ny + ni, dyi)),
                                   FracScale(-ni, nx + ny + ni, dxy))

ClusterPairs(P) == {pr \in P \X P : pr[1] # pr[2]}

Least(S) == CHOOSE x \in S : \A y \in S : x <= y

\* the values of the pairs of single observations
InitialDist(D, m, P) ==
    [pr \in ClusterPairs(P) |->
        LET d == D[Least(pr[1])][Least(pr[2])]
        IN IF Squared(m) THEN <<d * d, 1>> ELSE <<d, 1>>]

\* the values after the clusters pr[1] and pr[2] have been merged
UpdatedDist(m, P, dist, pr) ==
    LET x == pr[1]
        y == pr[2]
        u == x \cup y
        other(qr) == IF qr[1] = u THEN qr[2] ELSE qr[1]
    IN [qr \in ClusterPairs((P \ {x, y}) \cup {u}) |->
          IF u \in {qr[1], qr[2]}
          THEN LanceWilliams(m, dist[<<x, other(qr)>>], dist[<<y, other(qr)>>], dist[pr],
                             Cardinality(x), Cardinality(y), Cardinality(other(qr)))
          ELSE dist[qr]]

Beyond(m, x, t) ==
    IF Squared(m) THEN t < 0 \/ FracLeq(<<t * t, 1>>, x) ELSE FracLeq(<<t, 1>>, x)

\* fcluster(criterion = "distance"): a merge of height at most t stays within a flat cluster
Within(m, x, t) ==
    IF Squared(m) THEN t >= 0 /\ FracLeq(x, <<t * t, 1>>) ELSE FracLeq(x, <<t, 1>>)

RECURSIVE Agglomerate(_, _, _, _)
\* merge the two nearest clusters while their distance is at most t.  Which of several
\* equally near pairs is merged first is left open, so the result is the set of
\* partitions that can come out.  (The merged pair being a nearest one, no update
\* gives a negative value.)
Agglomerate(m, t, P, dist) ==
    LET near == {pr \in ClusterPairs(P) :
                    /\ Least(pr[1]) < Least(pr[2])
                    /\ Within(m, dist[pr], t)
                    /\ \A qr \in ClusterPairs(P) : FracLeq(dist[pr], dist[qr])}
    IN IF near = {} THEN {P}
       ELSE UNION {Agglomerate(m, t, (P \ {pr[1], pr[2]}) \cup {pr[1] \cup pr[2]}, d2) :
                      <<pr, d2>> \in {<<qr, UpdatedDist(m, P, dist, qr)>> : qr \in near}}

\* linkage + fcluster on the matrix D, from the partition P into single observations
FlatPartitions(D, m, t, P) == UNION {Agglomerate(m, t, P, d) : d \in {InitialDist(D, m, P)}}

\* the label vectors fcluster can return for partition P of 1..n: the clusters are
\* numbered 1..|P|, in an order the tree traversal decides
Labelings(P, n) ==
    {T \in [1..n -> 1..Cardinality(P)] :
        \A i, j \in 1..n : (T[i] = T[j]) <=> (\E A \in P : i \in A /\ j \in A)}

\* str(k) of a positive integer
Digits == <<"0", "1", "2", "3", "4", "5", "6", "7", "8", "9">>
RECURSIVE Str(_)
Str(k) == IF k < 10 THEN <<Digits[k + 1]>> ELSE Str(k \div 10) \o <<Digits[(k % 10) + 1]>>

ClusterNameZeroBased(k) == <<"C", "l", "u", "s", "t", "e", "r", "_">> \o Str(k - 1)

\* "Cluster_" + str(k)
ClusterName(k) == <<"C", "l", "u", "s", "t", "e", "r", "_">> \o Str(k)

RECURSIVE GetClusterOverwriting(_, _, _, _)
GetClusterOverwriting(T, label_names, i, cluster) ==
    IF i > Len(T) THEN cluster
    ELSE GetClusterOverwriting(T, label_names, i + 1,
            DictSet(cluster, ClusterName(T[i]), <<label_names[i]>>))

RECURSIVE GetClusterFrom(_, _, _, _)
\* the loop of get_cluster from i on: cluster[name].append(label_names[i])
GetClusterFrom(T, label_names, i, cluster) ==
    IF i > Len(T) THEN cluster
    ELSE LET name == ClusterName(T[i])
             old == IF Has(cluster, name) THEN cluster.val[name] ELSE <<>>
         IN GetClusterFrom(T, label_names, i + 1,
                DictSet(cluster, name, Append(old, label_names[i])))

get_cluster(T, label_names) == GetClusterFrom(T, label_names, 1, EmptyDict)

-----------------------------------------------------------------------------
(* Motif objects *)

\* a Motif read from a file: its identifier and its matrix (k names the matrix)
ReadMotif(id, k) == [id |-> id, pfm |-> <<"read", k>>]

\* merge_1.average_motifs(merge_2, pos, orientation): a new Motif whose matrix is the
\* average of the two matrices aligned by pos and orientation
average_motifs(m1, m2, pos, orientation) ==
    [id |-> <<>>, pfm |-> <<"average", m1.pfm, m2.pfm, pos, orientation>>]

IdsOf(h, refs) == [i \in 1..Len(refs) |-> h[refs[i]].id]

-----------------------------------------------------------------------------
(* generate_consensus_motifs and generate_consensus_motif *)

\* the PairwiseScores mc.get_all_scores can report for a motif and a later motif of
\* the list it is given
ConsScores == { Score(9003, 0, 1), Score(0, 1, -1), Score(-1000, 2, 1) }

\* what it reports for a motif and an earlier motif, and for a motif and itself
RevScore == Score(5000, 3, -1)
SelfScore == Score(10000, 0, 1)

\* args.dist_method: two of the choices of line 58
DistMethods == {"pcc", "seqcor"}

\* mc.get_all_scores(ids, ids, match = "total", metric = metric, combine = "mean"): a
\* ScoreMap over the cross product of the list with itself, keys in list order; fwd
\* gives the scores of the pairs in list order.  The map is tagged with the metric and
\* the aggregation it was computed with.
ScoreMapOf(ids, fwd, metric) ==
    LET idx(a) == CHOOSE i \in 1..Len(ids) : ids[i] = a
    IN [keys |-> ids,
        val  |-> [a \in Range(ids) |->
                    [keys |-> ids,
                     val  |-> [b \in Range(ids) |->
                                IF idx(a) < idx(b) THEN fwd[<<idx(a), idx(b)>>]
                                ELSE IF idx(a) = idx(b) THEN SelfScore ELSE RevScore]]],
        metric  |-> metric,
        combine |-> "mean"]

get_all_scores(ids, metric) ==
    {ScoreMapOf(ids, fwd, metric) : fwd \in [UnorderedPairs(Len(ids)) -> ConsScores]}

RecomputeInitialMetric(h, ms) == get_all_scores(IdsOf(h, ms), score_dict.metric)

\* line 511: mc.get_all_scores(motifs, motifs, match = "total", metric = "pcc",
\* combine = "mean")
Recompute(h, ms) == get_all_scores(IdsOf(h, ms), "pcc")

ClusterMotifListAll(h, mlist, value) == mlist

\* the list cluster_motifs built for a cluster with member list value
\* ("for m in motif_list: if m.id in value")
ClusterMotifList(h, mlist, value) == SelectSeq(mlist, LAMBDA m : h[m].id \in Range(value))

RECURSIVE Combinations2(_, _, _)
\* itertools.combinations(range(n), 2) from (i, j) on, as positions counted from 1
Combinations2(n, i, j) ==
    IF i >= n THEN <<>>
    ELSE IF j > n THEN Combinations2(n, i + 1, i + 2)
    ELSE <<(<<i, j>>)>> \o Combinations2(n, i, j + 1)

PairScoreReverse(h, sd, motif_1, motif_2) == sd.val[h[motif_2].id].val[h[motif_1].id]

\* line 496: similarity_dict[motif_1.id][motif_2.id]
PairScore(h, sd, motif_1, motif_2) == sd.val[h[motif_1].id].val[h[motif_2].id]

ReplacesStrictly(sim, max_score) == sim > max_score

ReplacesAlways(sim, max_score) == TRUE

\* "if score[0] >= max_score"
Replaces(sim, max_score) == sim >= max_score

RECURSIVE SelectLoop(_, _, _, _, _)
\* the selection loop from the p-th pair on; st = [max_score, bound, merge_1, merge_2,
\* score], bound telling whether merge_1 and merge_2 have been assigned
SelectLoop(h, ms, sd, pairs, st) ==
    IF pairs = <<>> THEN st
    ELSE LET motif_1 == ms[Head(pairs)[1]]
             motif_2 == ms[Head(pairs)[2]]
             score == PairScore(h, sd, motif_1, motif_2)
         IN SelectLoop(h, ms, sd, Tail(pairs),
                IF Replaces(score[1], st.max_score)
                THEN [max_score |-> score[1], bound |-> TRUE,
                      merge_1 |-> motif_1, merge_2 |-> motif_2, score |-> score]
                ELSE [st EXCEPT !.score = score])

\* lines 494-500: max_score = 0, then the loop over itertools.combinations(motifs, 2)
SelectPair(h, ms, sd) ==
    SelectLoop(h, ms, sd, Combinations2(Len(ms), 1, 2),
               [max_score |-> 0, bound |-> FALSE, merge_1 |-> 0, merge_2 |-> 0,
                score |-> <<>>])

\* the pos and orientation arguments of line 503: the loop variable score
AverageArgs(sel) == <<sel.score[2], sel.score[3]>>

\* list.remove(x): without the first element equal to x
ListRemove(l, x) ==
    LET i == CHOOSE i \in 1..Len(l) : l[i] = x /\ \A j \in 1..(i - 1) : l[j] # x
    IN SubSeq(l, 1, i - 1) \o SubSeq(l, i + 1, Len(l))

AlterListRemovingOne(ms, new, merge_1, merge_2) == ListRemove(Append(ms, new), merge_1)

AlterListPrepending(ms, new, merge_1, merge_2) ==
    <<new>> \o ListRemove(ListRemove(ms, merge_1), merge_2)

\* lines 507-509: append the average, remove the two parents
AlterList(ms, new, merge_1, merge_2) ==
    ListRemove(ListRemove(Append(ms, new), merge_1), merge_2)

AverageIdSwapped(id1, id2) == id2 \o <<"_">> \o id1

AverageIdOfFirst(id1, id2) == id1

\* line 504: merge_1.id + "_" + merge_2.id
AverageId(id1, id2) == id1 \o <<"_">> \o id2

FirstMotifRead(ms) == 1

\* lines 490-491: "return motifs[0]", the object itself
BaseCaseMotif(ms) == ms[1]

MotifListAliased(mlist, ms) == ms

\* run_motifclust's motif_list after a merge: the list lines 507-509 alter is the new
\* list of line 462 ("cluster_motifs = list()"), another object
MotifListAfter(mlist, ms) == mlist

NoMerge == [merge_1 |-> 0, merge_2 |-> 0, pos |-> 0, orientation |-> 0]

SuffixedId(cluster, id) == id \o <<"_">> \o cluster

\* line 601: cluster + "_" + consensus_motif.id
PrefixedId(cluster, id) == cluster \o <<"_">> \o id

\* consensus_motif_out_wrapper, lines 600-601, from the p-th cluster on:
\* consensus_motif.id = cluster + "_" + consensus_motif.id
RECURSIVE RelabelFrom(_, _, _)
RelabelFrom(h, cons, p) ==
    IF p > Len(cons.keys) THEN h
    ELSE LET cluster == cons.keys[p]
             ref == cons.val[cluster]
         IN RelabelFrom([h EXCEPT ![ref].id = PrefixedId(cluster, @)], cons, p + 1)

-----------------------------------------------------------------------------
(* The run: generate_similarity_matrix, get_dissimilar_motifs, cluster_motifs *)

\* args.threshold: the default 0.5
DefaultThreshold == 500

\* the thresholds of the runs: the default, and a negative one (every distance exceeds it)
Thresholds == {DefaultThreshold, -100}

ReadMotifs(ids) == [k \in 1..Len(ids) |-> ReadMotif(ids[k], k)]

\* three motifs with the symmetric similarities 0.9, 0.2 and 0.3, self-similarity 1
ThreeMotifScenario ==
    FullScoreMap(MotifIds(3),
                 (<<1, 2>> :> <<9000, 9000>>) @@ (<<1, 3>> :> <<2000, 2000>>)
                    @@ (<<2, 3>> :> <<3000, 3000>>),
                 <<10000, 10000, 10000>>, FALSE)

\* the ScoreMaps handed to generate_similarity_matrix: the complete ones in the key
\* order of get_all_scores, complete ones of perfect self-similarity with the second
\* level in the opposite key order, ones with one entry's keys cut down or extended,
\* the one of identical motifs (every similarity 1), and the three-motif scenario
ScoreMapInputs(n) ==
    LET ids == MotifIds(n)
        ones == [i \in 1..n |-> 10000]
        full == {FullScoreMap(ids, ps, ds, FALSE) :
                    ps \in [UnorderedPairs(n) -> PairSims], ds \in [1..n -> DiagSims]}
        reversed == {FullScoreMap(ids, ps, ones, TRUE) :
                        ps \in [UnorderedPairs(n) -> {<<9003, 9003>>, <<2000, 7992>>}]}
        plain == FullScoreMap(ids, [p \in UnorderedPairs(n) |-> <<9003, 9003>>], ones, FALSE)
        ragged == {RaggedScoreMap(plain, e, keep, extra) :
                    e \in 1..n, keep \in SUBSET Range(ids),
                    extra \in {<<>>, <<MotifPool[n + 1]>>}}
        identical == FullScoreMap(ids, [p \in UnorderedPairs(n) |-> <<10000, 10000>>], ones, FALSE)
    IN full \cup reversed \cup ragged \cup {identical} \cup (IF n = 3 THEN {ThreeMotifScenario} ELSE {})

ConsIdle ==
    /\ consensus_motifs = EmptyDict
    /\ cur = 1
    /\ motifs = <<>>
    /\ sim_dict = EmptyDict
    /\ start_len = 0
    /\ level = 0
    /\ last = NoMerge

Init ==
    /\ pc = "start"
    /\ error = "none"
    /\ \E n \in 1..MaxMotifs :
         /\ heap = ReadMotifs(MotifIds(n))
         /\ motif_list = [k \in 1..n |-> k]
         /\ score_dict \in ScoreMapInputs(n)
    /\ threshold \in Thresholds
    /\ method = "none"
    /\ similarity_matrix = NoFrame
    /\ dissimilar_motifs = <<>>
    /\ labels = <<>>
    /\ clusters = EmptyDict
    /\ ConsIdle

\* run_motifclust line 722
GenerateSimilarityMatrix ==
    /\ pc = "start"
    /\ \E r \in {generate_similarity_matrix(score_dict)} :
          IF r.ok
          THEN /\ similarity_matrix' = r.value
               /\ pc' = "matrix"
               /\ error' = error
          ELSE /\ similarity_matrix' = similarity_matrix
               /\ pc' = "failed"
               /\ error' = r.err
    /\ score_dict' = ScoreMapAfter(score_dict)
    /\ UNCHANGED <<heap, motif_list, threshold, method, dissimilar_motifs, labels, clusters>>
    /\ UNCHANGED cons_vars

\* run_motifclust line 741
GetDissimilarMotifs ==
    /\ pc = "matrix"
    /\ dissimilar_motifs' = get_dissimilar_motifs(similarity_matrix, threshold)
    /\ pc' = "stats"
    /\ UNCHANGED <<error, heap, motif_list, score_dict, threshold, method,
                   similarity_matrix, labels, clusters>>
    /\ UNCHANGED cons_vars

\* ssd.squareform(X) with its default checks=True raises ValueError unless X is a
\* square symmetric matrix with a zero diagonal; linkage raises ValueError for the
\* empty condensed vector of a single observation
Degenerate(matrix) ==
    ~ /\ IsSquare(matrix)
      /\ Len(matrix.index) > 1
      /\ \A i, j \in 1..Len(matrix.index) : matrix.data[i][j] = matrix.data[j][i]
      /\ \A i \in 1..Len(matrix.index) : matrix.data[i][i] = 0

ClusterFails ==
    /\ pc = "stats"
    /\ Degenerate(similarity_matrix)
    /\ pc' = "failed"
    /\ error' = "ValueError"
    /\ UNCHANGED <<heap, motif_list, score_dict, threshold, method, similarity_matrix,
                   dissimilar_motifs, labels, clusters>>
    /\ UNCHANGED cons_vars

\* run_motifclust line 750: cluster_motifs(similarity_matrix, args.threshold, args.clust_method)
ClusterMotifs ==
    /\ pc = "stats"
    /\ ~Degenerate(similarity_matrix)
    /\ \E m \in ClustMethods :
         LET n == Len(similarity_matrix.index)
         IN \E P \in FlatPartitions(similarity_matrix.data, m, threshold, {{i} : i \in 1..n}) :
              \E T \in Labelings(P, n) :
                 /\ method' = m
                 /\ labels' = T
                 /\ clusters' = get_cluster(T, similarity_matrix.index)
    /\ pc' = "clustered"
    /\ UNCHANGED <<error, heap, motif_list, score_dict, threshold, similarity_matrix,
                   dissimilar_motifs>>
    /\ UNCHANGED cons_vars

Next ==
    \/ GenerateSimilarityMatrix
    \/ GetDissimilarMotifs
    \/ ClusterFails
    \/ ClusterMotifs

Spec == Init /\ [][Next]_vars

-----------------------------------------------------------------------------
(* The run: generate_consensus_motifs, consensus_motif_out_wrapper *)

\* identifiers without tabs
PlainPool == << <<"A">>, <<"B">>, <<"C">>, <<"D">>, <<"E">>, <<"F">> >>

\* the label vectors numbered in order of first appearance: T[1] = 1 and each T[i] is
\* at most one more than the largest label before it
FirstAppearanceLabelings(n) ==
    {T \in [1..n -> 1..n] :
        /\ T[1] = 1
        /\ \A i \in 2..n : \E j \in 1..(i - 1) : T[i] <= T[j] + 1}

\* The state in which run_motifclust calls generate_consensus_motifs (line 790): the
\* motifs read, the ScoreMap of get_all_scores over them (raw identifiers), and the
\* ClusterAssignment of get_cluster over the row labels (tabs replaced).
InitCons ==
    /\ pc = "consensus"
    /\ error = "none"
    /\ \E n \in 1..MaxMotifs :
         \E ids \in {MotifIds(n), SubSeq(PlainPool, 1, n)} :
            /\ heap = ReadMotifs(ids)
            /\ motif_list = [k \in 1..n |-> k]
            /\ \E dm \in DistMethods : score_dict \in get_all_scores(ids, dm)
            /\ labels \in FirstAppearanceLabelings(n)
            /\ clusters = get_cluster(labels, [k \in 1..n |-> ReplaceTab(ids[k])])
    /\ threshold = DefaultThreshold
    /\ method = "average"
    /\ similarity_matrix = NoFrame
    /\ dissimilar_motifs = <<>>
    /\ ConsIdle

\* generate_consensus_motifs lines 461-467, up to the call of generate_consensus_motif
StartCluster ==
    /\ pc = "consensus"
    /\ cur <= Len(clusters.keys)
    /\ motifs' = ClusterMotifList(heap, motif_list, clusters.val[clusters.keys[cur]])
    /\ start_len' = Len(motifs')
    /\ sim_dict' = score_dict
    /\ level' = 0
    /\ pc' = "call"
    /\ UNCHANGED <<error, heap, motif_list, score_dict, clusters, consensus_motifs, cur, last>>
    /\ UNCHANGED matrix_vars

\* generate_consensus_motif lines 490-491, and the assignment of line 467
ReturnConsensus ==
    /\ pc = "call"
    /\ Len(motifs) = 1
    /\ consensus_motifs' = DictSet(consensus_motifs, clusters.keys[cur], BaseCaseMotif(motifs))
    /\ cur' = cur + 1
    /\ pc' = "consensus"
    /\ UNCHANGED <<error, heap, motif_list, score_dict, clusters, motifs, sim_dict,
                   start_len, level, last>>
    /\ UNCHANGED matrix_vars

\* generate_consensus_motif lines 493-513: one level of the recursion.  With no pair
\* selected, merge_1 is unbound at line 503.
Merge ==
    /\ pc = "call"
    /\ Len(motifs) # 1
    /\ \E sel \in {SelectPair(heap, motifs, sim_dict)} :
         IF ~sel.bound
         THEN /\ pc' = "failed"
              /\ error' = "UnboundLocalError"
              /\ UNCHANGED <<heap, motif_list, motifs, sim_dict, level, last>>
         ELSE /\ heap' = Append(heap,
                    [average_motifs(heap[sel.merge_1], heap[sel.merge_2],
                                    AverageArgs(sel)[1], AverageArgs(sel)[2])
                     EXCEPT !.id = AverageId(heap[sel.merge_1].id, heap[sel.merge_2].id)])
              /\ motifs' = AlterList(motifs, Len(heap) + 1, sel.merge_1, sel.merge_2)
              /\ sim_dict' \in Recompute(heap', motifs')
              /\ level' = level + 1
              /\ last' = [merge_1 |-> sel.merge_1, merge_2 |-> sel.merge_2,
                          pos |-> AverageArgs(sel)[1], orientation |-> AverageArgs(sel)[2]]
              /\ motif_list' = MotifListAfter(motif_list, motifs')
              /\ pc' = "call"
              /\ error' = error
    /\ UNCHANGED <<score_dict, clusters, consensus_motifs, cur, start_len>>
    /\ UNCHANGED matrix_vars

\* generate_consensus_motifs line 468: every cluster has its consensus
ReturnConsensusMotifs ==
    /\ pc = "consensus"
    /\ cur > Len(clusters.keys)
    /\ pc' = "returned"
    /\ UNCHANGED <<error, heap, motif_list, score_dict, clusters>>
    /\ UNCHANGED cons_vars
    /\ UNCHANGED matrix_vars

\* consensus_motif_out_wrapper lines 600-608 (the files written are not modelled)
ConsensusMotifOutWrapper ==
    /\ pc = "returned"
    /\ heap' = RelabelFrom(heap, consensus_motifs, 1)
    /\ pc' = "written"
    /\ UNCHANGED <<error, motif_list, score_dict, clusters>>
    /\ UNCHANGED cons_vars
    /\ UNCHANGED matrix_vars

NextCons ==
    \/ StartCluster
    \/ ReturnConsensus
    \/ Merge
    \/ ReturnConsensusMotifs
    \/ ConsensusMotifOutWrapper

SpecCons == InitCons /\ [][NextCons]_vars

-----------------------------------------------------------------------------
(* Claims about generate_similarity_matrix, get_dissimilar_motifs, cluster_motifs *)

Pos(seq, x) == CHOOSE i \in 1..Len(seq) : seq[i] = x

\* the entry of the matrix in the row labelled rowl and the column labelled coll
Entry(M, rowl, coll) == M.data[Pos(M.index, rowl)][Pos(M.columns, coll)]

\* generate_similarity_matrix has returned its DataFrame
MatrixReturned == pc \in {"matrix", "stats", "clustered"} \/ error = "ValueError"

\* every second-level key set is the first-level key set
EqualKeySets(sd) == \A a \in Range(sd.keys) : Range(sd.val[a].keys) = Range(sd.keys)

Sim(sd, a, b) == sd.val[a].val[b][1]

\* l is k with every tab replaced by a space
IsNormalized(l, k) ==
    /\ Len(l) = Len(k)
    /\ \A i \in 1..Len(k) : l[i] = (IF k[i] = TAB THEN SP ELSE k[i])

\* e/1000 is 1 - (s1 + s2)/20000 rounded to 3 decimals: the nearest multiple of 1/1000
IsRounded(e, s1, s2) ==
    /\ 20 * e - (20000 - (s1 + s2)) <= 10
    /\ (20000 - (s1 + s2)) - 20 * e <= 10

\* C1: for a ScoreMap whose second-level key sets all equal its first-level key set,
\* the matrix returned is exactly symmetric, entry(i,j) = entry(j,i) for all labels i
\* and j, also when score(i,j) and score(j,i) differ.
C1_Symmetric ==
    (MatrixReturned /\ EqualKeySets(score_dict)) =>
        \A a, b \in Range(similarity_matrix.columns) :
            Entry(similarity_matrix, a, b) = Entry(similarity_matrix, b, a)

\* a matrix was returned for a ScoreMap in which two directional scores differ
C1_Witness ==
    /\ MatrixReturned
    /\ EqualKeySets(score_dict)
    /\ \E a, b \in Range(score_dict.keys) : Sim(score_dict, a, b) # Sim(score_dict, b, a)

\* C2: every entry of the matrix returned, the diagonal included, is
\* round(1 - (similarity(i,j) + similarity(j,i)) / 2, 3), i the identifier of its column
\* and j that of its row; with similarities in [0,1] it lies in [-0.5, 1.5].
C2_EntryFormula ==
    MatrixReturned =>
        \A c \in 1..Len(similarity_matrix.columns), r \in 1..Len(similarity_matrix.index) :
            LET i == score_dict.keys[c]
                j == score_dict.val[score_dict.keys[1]].keys[r]
                e == similarity_matrix.data[r][c]
            IN /\ IsRounded(e, Sim(score_dict, i, j), Sim(score_dict, j, i))
               /\ (/\ Sim(score_dict, i, j) \in 0..10000
                   /\ Sim(score_dict, j, i) \in 0..10000) => (e >= -500 /\ e <= 1500)

\* a matrix was returned with a diagonal entry that is not 0 and an entry whose
\* unrounded value is not a multiple of 1/1000, from directional scores that differ
C2_Witness ==
    /\ MatrixReturned
    /\ EqualKeySets(score_dict)
    /\ \E a \in Range(similarity_matrix.columns) : Entry(similarity_matrix, a, a) # 0
    /\ \E a, b \in Range(score_dict.keys) :
         /\ Sim(score_dict, a, b) # Sim(score_dict, b, a)
         /\ (Sim(score_dict, a, b) + Sim(score_dict, b, a)) % 20 # 0

\* C3: for a ScoreMap over n identifiers (distinct after tab replacement) the call
\* returns an n x n matrix; its column labels are the normalized first-level keys in
\* their order, its row labels the normalized second-level keys of the first entry in
\* their order, and the two label sets are equal.
C3_ShapeAndLabels ==
    (pc # "start" /\ EqualKeySets(score_dict)) =>
        LET n == Len(score_dict.keys)
            k2 == score_dict.val[score_dict.keys[1]].keys
            M == similarity_matrix
        IN /\ MatrixReturned
           /\ Len(M.columns) = n /\ Len(M.index) = n
           /\ DOMAIN M.data = 1..n /\ \A r \in 1..n : DOMAIN M.data[r] = 1..n
           /\ \A c \in 1..n : IsNormalized(M.columns[c], score_dict.keys[c])
           /\ \A r \in 1..n : IsNormalized(M.index[r], k2[r])
           /\ Range(M.columns) = Range(M.index)

\* a matrix was returned for three identifiers, one with a tab, the second-level keys
\* in another order than the first-level keys
C3_Witness ==
    /\ MatrixReturned
    /\ EqualKeySets(score_dict)
    /\ Len(score_dict.keys) = 3
    /\ \E k \in Range(score_dict.keys) : TAB \in Range(k)
    /\ score_dict.val[score_dict.keys[1]].keys # score_dict.keys

\* some first-level key is no second-level key of another entry, or a second-level key
\* of the first entry is no first-level key
KeyMismatch(sd) ==
    \/ \E a, b \in Range(sd.keys) : a # b /\ a \notin Range(sd.val[b].keys)
    \/ \E k \in Range(sd.val[sd.keys[1]].keys) : k \notin Range(sd.keys)

\* C4: whenever some first-level key is absent as a second-level key of another entry
\* (or a second-level key of the first entry is no first-level key),
\* generate_similarity_matrix fails with a key error and returns no matrix.
C4_KeyMismatchFails ==
    (pc # "start" /\ KeyMismatch(score_dict)) =>
        (pc = "failed" /\ error = "KeyError" /\ similarity_matrix = NoFrame)

\* the columns of M whose entries, the diagonal included, all strictly exceed t
FarColumns(M, t) ==
    {c \in 1..Len(M.columns) : \A r \in 1..Len(M.index) : M.data[r][c] > t}

DissimilarComputed == pc \in {"stats", "clustered"} \/ error = "ValueError"

\* C5: get_dissimilar_motifs returns, in column order, labels of columns all of whose
\* entries (the diagonal included) are strictly greater than the threshold: every
\* returned label is such a column, every such column at positions 0..n-2 is returned,
\* and a column with an entry equal to or below the threshold is not returned.
C5_Dissimilar ==
    DissimilarComputed =>
        LET M == similarity_matrix
            far == FarColumns(M, threshold)
            D == dissimilar_motifs
        IN /\ \A k \in 1..Len(D) : \E c \in far : M.columns[c] = D[k]
           /\ \A c \in far : c <= Len(M.columns) - 1 => M.columns[c] \in Range(D)
           /\ \A c \in 1..Len(M.columns) : c \notin far => M.columns[c] \notin Range(D)
           /\ \A k, l \in 1..Len(D) : k < l => Pos(M.columns, D[k]) < Pos(M.columns, D[l])

\* at the default threshold a column is reported, and another column, before the last,
\* is not reported because one of its entries equals the threshold
C5_Witness ==
    /\ DissimilarComputed
    /\ threshold = DefaultThreshold
    /\ dissimilar_motifs # <<>>
    /\ \E c \in 1..(Len(similarity_matrix.columns) - 1) :
         /\ similarity_matrix.columns[c] \notin Range(dissimilar_motifs)
         /\ \E r \in 1..Len(similarity_matrix.index) : similarity_matrix.data[r][c] = threshold
         /\ \A r \in 1..Len(similarity_matrix.index) : similarity_matrix.data[r][c] >= threshold

\* the sum of f over S
RECURSIVE SumOver(_, _)
SumOver(S, f) ==
    IF S = {} THEN 0
    ELSE LET x == CHOOSE x \in S : TRUE IN f[x] + SumOver(S \ {x}, f)

\* the number of times x occurs in the member lists of the ClusterAssignment
Occurrences(cl, x) ==
    Cardinality({<<k, i>> \in (1..Len(cl.keys)) \X (1..Len(similarity_matrix.index)) :
                    i <= Len(cl.val[cl.keys[k]]) /\ cl.val[cl.keys[k]][i] = x})

\* C6: after cluster_motifs every row label of the distance matrix (the motifs reported
\* as dissimilar too) is in exactly one cluster's member list, no other identifier is in
\* any, and the sizes of the member lists sum to n.
C6_EveryMotifInOneCluster ==
    pc = "clustered" =>
        LET rows == similarity_matrix.index
        IN /\ \A x \in Range(rows) : Occurrences(clusters, x) = 1
           /\ \A k \in Range(clusters.keys) : Range(clusters.val[k]) \subseteq Range(rows)
           /\ SumOver(Range(clusters.keys), [k \in Range(clusters.keys) |-> Len(clusters.val[k])])
                = Len(rows)

\* cluster_motifs has put three motifs, two of them reported as dissimilar, into clusters
C6_Witness ==
    /\ pc = "clustered"
    /\ Len(similarity_matrix.index) = 3
    /\ Len(dissimilar_motifs) = 2
    /\ \A x \in Range(dissimilar_motifs) : Occurrences(clusters, x) = 1

-----------------------------------------------------------------------------
(* Claims about generate_consensus_motifs and generate_consensus_motif *)

\* the similarity the ScoreMap sd records for the i-th and the j-th motif of the list ms
PairSim(h, ms, sd, i, j) == sd.val[h[ms[i]].id].val[h[ms[j]].id][1]

\* pair q comes after pair p in the enumeration of itertools.combinations
LexLater(q, p) == q[1] > p[1] \/ (q[1] = p[1] /\ q[2] > p[2])

\* generate_consensus_motif has returned for the cluster before position cur
Returned == pc \in {"consensus", "returned", "written"} /\ cur > 1

\* C7: for a cluster of k >= 1 member motifs with all pairwise similarities >= 0,
\* generate_consensus_motif ends after exactly k-1 merges with a working list of size 1,
\* each level making the working list one shorter.
C7_MergeCount ==
    /\ pc = "call" =>
         /\ Len(motifs) = start_len - level
         /\ start_len >= 1 => Len(motifs) >= 1
    /\ Returned => (Len(motifs) = 1 /\ level = start_len - 1)
    /\ (pc = "failed" /\ start_len >= 1) =>
         \E p \in UnorderedPairs(Len(motifs)) : PairSim(heap, motifs, sim_dict, p[1], p[2]) < 0

\* the consensus of a list of three motifs was returned after two merges
C7_Witness ==
    /\ Returned
    /\ start_len = 3
    /\ level = 2
    /\ Len(motifs) = 1

\* p is a pair of the list with the greatest similarity, and no pair enumerated after
\* it has that similarity
IsLastMaximum(h, ms, sd, p) ==
    \A q \in UnorderedPairs(Len(ms)) :
        /\ PairSim(h, ms, sd, q[1], q[2]) <= PairSim(h, ms, sd, p[1], p[2])
        /\ LexLater(q, p) => PairSim(h, ms, sd, q[1], q[2]) < PairSim(h, ms, sd, p[1], p[2])

C8_Step ==
    (/\ pc = "call"
     /\ Len(motifs) >= 2
     /\ \E p \in UnorderedPairs(Len(motifs)) : PairSim(heap, motifs, sim_dict, p[1], p[2]) >= 0)
    => /\ pc' = "call"
       /\ \E p \in UnorderedPairs(Len(motifs)) :
            /\ IsLastMaximum(heap, motifs, sim_dict, p)
            /\ last'.merge_1 = motifs[p[1]]
            /\ last'.merge_2 = motifs[p[2]]
            /\ heap'[Len(heap')].pfm[2] = heap[motifs[p[1]]].pfm
            /\ heap'[Len(heap')].pfm[3] = heap[motifs[p[2]]].pfm
            /\ Range(motifs') = (Range(motifs) \ {motifs[p[1]], motifs[p[2]]}) \cup {Len(heap')}

\* C8: at every level with at least two motifs, the pair merged is the pair of the
\* working list with the greatest similarity in the current ScoreMap, and of several
\* such pairs the one enumerated last.
C8_MergesLastMaximum == [][C8_Step]_vars

\* the first level of a list of three motifs had two pairs of the greatest similarity,
\* and the one enumerated later was merged
C8_Witness ==
    /\ pc = "call"
    /\ level = 1
    /\ start_len = 3
    /\ LET ms == ClusterMotifList(heap, motif_list, clusters.val[clusters.keys[cur]])
       IN \E p, q \in UnorderedPairs(3) :
            /\ LexLater(q, p)
            /\ PairSim(heap, ms, score_dict, p[1], p[2]) = PairSim(heap, ms, score_dict, q[1], q[2])
            /\ IsLastMaximum(heap, ms, score_dict, q)
            /\ last.merge_1 = ms[q[1]]
            /\ last.merge_2 = ms[q[2]]

C9_Step ==
    (pc = "call" /\ Len(motifs) >= 2 /\ pc' = "call") =>
        LET recorded == sim_dict.val[heap[last'.merge_1].id].val[heap[last'.merge_2].id]
        IN /\ last'.pos = recorded[2]
           /\ last'.orientation = recorded[3]
           /\ heap'[Len(heap')].pfm = <<"average", heap[last'.merge_1].pfm,
                                        heap[last'.merge_2].pfm, recorded[2], recorded[3]>>

\* C9: at every merge, for a working list of any size >= 2, the averaged motif is built
\* from the selected pair with the offset and orientation the current ScoreMap records
\* for that pair, those of ScoreMap[merge_1][merge_2].
C9_AverageUsesPairAlignment == [][C9_Step]_vars

\* C10: generate_consensus_motifs returns one consensus per cluster label, and the
\* working list it starts a cluster from holds exactly one Motif per member identifier
\* of the cluster, in the order of the motif list, so that its size is the cluster's.
C10_OneMotifPerMember ==
    /\ pc = "returned" => consensus_motifs.keys = clusters.keys
    /\ (pc = "call" /\ level = 0) =>
         LET value == clusters.val[clusters.keys[cur]]
         IN /\ Len(motifs) = Len(value)
            /\ \A x \in Range(value) :
                 Cardinality({i \in 1..Len(motifs) : IsNormalized(x, heap[motifs[i]].id)}) = 1
            /\ \A i, j \in 1..Len(motifs) :
                 i < j => Pos(motif_list, motifs[i]) < Pos(motif_list, motifs[j])

\* C11: input motifs are never modified: through consensus building and the relabel of
\* consensus_motif_out_wrapper every motif of the input motif list, for clusters of
\* every size, keeps the identifier (and matrix) it was read with.
C11_Step == \A k \in 1..Len(motif_list) : heap'[motif_list[k]] = heap[motif_list[k]]

C11_InputsNeverModified == [][C11_Step]_vars

C12_Step ==
    (pc = "call" /\ Len(motifs) = 1) =>
        /\ pc' = "consensus"
        /\ Has(consensus_motifs', clusters.keys[cur])
        /\ consensus_motifs'.val[clusters.keys[cur]] = motifs[1]
        /\ heap' = heap
        /\ motifs' = motifs
        /\ sim_dict' = sim_dict
        /\ level' = level
        /\ last' = last

\* C12: for a working list of exactly one motif, generate_consensus_motif returns that
\* same motif object (the reference, no new object), its identifier unchanged, without
\* a merge and without computing a ScoreMap.
C12_ReturnsTheMotifItself == [][C12_Step]_vars

\* a cluster of one input motif was given that motif itself as its consensus
C12_Witness ==
    /\ pc = "consensus"
    /\ cur > 1
    /\ start_len = 1
    /\ level = 0
    /\ motifs[1] \in Range(motif_list)
    /\ motifs[1] > 1
    /\ consensus_motifs.val[clusters.keys[cur - 1]] = motifs[1]

\* generate_consensus_motifs is about to call generate_consensus_motif for a cluster
\* none of whose member identifiers is the identifier of a motif of the list
EmptyMaterialized ==
    /\ pc = "call"
    /\ level = 0
    /\ \A m \in Range(motif_list) : heap[m].id \notin Range(clusters.val[clusters.keys[cur]])

C13_Step ==
    EmptyMaterialized =>
        /\ motifs = <<>>
        /\ pc' = "failed"
        /\ error' = "UnboundLocalError"
        /\ consensus_motifs' = consensus_motifs
        /\ cur' = cur

\* C13: when a cluster's materialized motif list is empty, generate_consensus_motif
\* fails with an exception for that cluster and no consensus is recorded for it; it
\* never returns normally.
C13_EmptyClusterFails == [][C13_Step]_vars

\* the call for an empty list has raised, with nothing recorded for the cluster
C13_Witness ==
    /\ pc = "failed"
    /\ error = "UnboundLocalError"
    /\ start_len = 0
    /\ motifs = <<>>
    /\ ~Has(consensus_motifs, clusters.keys[cur])

-----------------------------------------------------------------------------
(* Claims about the single-motif run, get_cluster and the last column *)

\* the run was given one motif and its complete ScoreMap, self-similarity 1
SingleMotifRun ==
    /\ Len(motif_list) = 1
    /\ score_dict.keys = <<heap[motif_list[1]].id>>
    /\ EqualKeySets(score_dict)
    /\ Sim(score_dict, score_dict.keys[1], score_dict.keys[1]) = 10000

\* C14: with exactly one motif the pipeline does not run linkage on the 1x1 matrix: the
\* case yields one singleton cluster holding that motif, and the run is not aborted.
C14_SingleMotifHandled ==
    (SingleMotifRun /\ pc \notin {"start", "matrix", "stats"}) =>
        /\ pc = "clustered"
        /\ error = "none"
        /\ Len(clusters.keys) = 1
        /\ clusters.val[clusters.keys[1]] = <<ReplaceTab(heap[motif_list[1]].id)>>

\* "Cluster_c" for a flat cluster number c below 10
NameOfLabel(c) == <<"C", "l", "u", "s", "t", "e", "r", "_", Digits[c + 1]>>

\* the rows whose flat cluster number is c, in row order
RowsLabelled(rows, T, c) ==
    LET at == SelectSeq([i \in 1..Len(rows) |-> i], LAMBDA i : T[i] = c)
    IN [k \in 1..Len(at) |-> rows[at[k]]]

\* C15: get_cluster assigns the i-th flat cluster number to the i-th row label: a motif
\* with number c (numbers start at 1) is under the key "Cluster_c", and the members of
\* each cluster are in the relative order of the matrix rows.
C15_LabelsToRows ==
    pc = "clustered" =>
        LET rows == similarity_matrix.index
        IN /\ Len(labels) = Len(rows)
           /\ \A i \in 1..Len(rows) :
                /\ labels[i] >= 1
                /\ Has(clusters, NameOfLabel(labels[i]))
                /\ clusters.val[NameOfLabel(labels[i])] = RowsLabelled(rows, labels, labels[i])
           /\ \A key \in Range(clusters.keys) : \E i \in 1..Len(rows) : key = NameOfLabel(labels[i])

\* three rows were labelled 2, 1, 2: the first row is not in Cluster_1, and Cluster_2
\* holds the first and the third row
C15_Witness ==
    /\ pc = "clustered"
    /\ labels = <<2, 1, 2>>
    /\ clusters.val[NameOfLabel(2)] = <<similarity_matrix.index[1], similarity_matrix.index[3]>>

-----------------------------------------------------------------------------
(* Claims about the three-motif scenario and identical motifs *)

\* the ScoreMap of three motifs a, b, c: sim(a,b) = 0.9, sim(a,c) = 0.2, sim(b,c) = 0.3
\* in both directions, self-similarity 1
IsScenario(sd) ==
    /\ Len(sd.keys) = 3
    /\ EqualKeySets(sd)
    /\ LET a == sd.keys[1]
           b == sd.keys[2]
           c == sd.keys[3]
       IN /\ Sim(sd, a, b) = 9000 /\ Sim(sd, b, a) = 9000
          /\ Sim(sd, a, c) = 2000 /\ Sim(sd, c, a) = 2000
          /\ Sim(sd, b, c) = 3000 /\ Sim(sd, c, b) = 3000
          /\ \A k \in {a, b, c} : Sim(sd, k, k) = 10000

\* every linkage method args.clust_method can name
SupportedMethods ==
    {"single", "complete", "average", "weighted", "centroid", "median", "ward"}

Singletons(n) == {{i} : i \in 1..n}

\* C16: for three motifs A, B, C with symmetric similarities 0.9, 0.2, 0.3 (self 1) the
\* matrix has d(A,B) = 0.1, d(A,C) = 0.8, d(B,C) = 0.7, and cluster_motifs at threshold
\* 0.5 puts, with each of the seven linkage methods, A and B in one cluster and C alone
\* in another.
C16_Scenario ==
    LET M == similarity_matrix
        a == ReplaceTab(score_dict.keys[1])
        b == ReplaceTab(score_dict.keys[2])
        c == ReplaceTab(score_dict.keys[3])
    IN /\ (IsScenario(score_dict) /\ pc # "start") =>
            /\ MatrixReturned
            /\ Entry(M, a, b) = 100 /\ Entry(M, b, a) = 100
            /\ Entry(M, a, c) = 800 /\ Entry(M, c, a) = 800
            /\ Entry(M, b, c) = 700 /\ Entry(M, c, b) = 700
       /\ (IsScenario(score_dict) /\ threshold = DefaultThreshold /\ pc = "stats") =>
            /\ ENABLED ClusterMotifs
            /\ \A m \in SupportedMethods :
                  FlatPartitions(M.data, m, threshold, Singletons(3)) = {{{1, 2}, {3}}}
       /\ (IsScenario(score_dict) /\ threshold = DefaultThreshold
             /\ pc \notin {"start", "matrix", "stats"}) =>
            /\ pc = "clustered"
            /\ method \in SupportedMethods
            /\ Len(clusters.keys) = 2
            /\ \E k1, k2 \in Range(clusters.keys) :
                  clusters.val[k1] = <<a, b>> /\ clusters.val[k2] = <<c>>

\* the scenario was clustered at 0.5 with ward linkage
C16_Witness ==
    /\ IsScenario(score_dict)
    /\ threshold = DefaultThreshold
    /\ pc = "clustered"
    /\ method = "ward"
    /\ labels[1] = labels[2]
    /\ labels[3] # labels[1]

\* two motifs, every similarity (both directions and self) 1
IsIdenticalPair(sd) ==
    /\ Len(sd.keys) = 2
    /\ EqualKeySets(sd)
    /\ \A a, b \in Range(sd.keys) : Sim(sd, a, b) = 10000

\* C17: for two motifs whose similarities in both directions and self-similarities are
\* all 1, every entry of the distance matrix is 0, and cluster_motifs at any threshold
\* above 0 puts both motifs in the same cluster.
C17_IdenticalMotifs ==
    LET M == similarity_matrix
    IN /\ (IsIdenticalPair(score_dict) /\ pc # "start") =>
            /\ MatrixReturned
            /\ Len(M.index) = 2 /\ Len(M.columns) = 2
            /\ \A r, c \in 1..2 : M.data[r][c] = 0
       /\ (IsIdenticalPair(score_dict) /\ pc = "stats") =>
            \A m \in SupportedMethods, t \in {1, 2, DefaultThreshold, 2000} :
                FlatPartitions(M.data, m, t, Singletons(2)) = {{{1, 2}}}
       /\ (IsIdenticalPair(score_dict) /\ threshold > 0
             /\ pc \notin {"start", "matrix", "stats"}) =>
            /\ pc = "clustered"
            /\ labels[1] = labels[2]
            /\ Len(clusters.keys) = 1
            /\ clusters.val[clusters.keys[1]] = M.index

\* two identical motifs were clustered at a threshold above 0
C17_Witness ==
    /\ IsIdenticalPair(score_dict)
    /\ threshold > 0
    /\ pc = "clustered"
    /\ Len(clusters.keys) = 1
    /\ Len(clusters.val[clusters.keys[1]]) = 2

-----------------------------------------------------------------------------
(* Claims about the ScoreMap of each level *)

\* C20: after each merge the ScoreMap of the next level is recomputed over exactly the
\* cross product of the new working list with itself (self-pairs included) with metric
\* pcc and combine mean, whatever metric produced the initial ScoreMap; the first level
\* of a cluster reads the original ScoreMap, every later level the recomputed one.
C20_Recomputed ==
    /\ (pc = "call" /\ level = 0) => sim_dict = score_dict
    /\ (pc = "call" /\ level >= 1) =>
         LET ids == IdsOf(heap, motifs)
         IN /\ sim_dict.metric = "pcc"
            /\ sim_dict.combine = "mean"
            /\ sim_dict.keys = ids
            /\ \A a \in Range(ids) :
                 /\ sim_dict.val[a].keys = ids
                 /\ DOMAIN sim_dict.val[a].val = Range(ids)
            /\ sim_dict # score_dict

\* the second level of a cluster of three motifs whose initial ScoreMap was computed
\* with seqcor reads a ScoreMap computed with pcc over its two motifs
C20_Witness ==
    /\ pc = "call"
    /\ level = 1
    /\ start_len = 3
    /\ score_dict.metric = "seqcor"
    /\ sim_dict.metric = "pcc"
    /\ Len(sim_dict.keys) = 2

-----------------------------------------------------------------------------
(* Claims about identifiers and the working list *)

\* a step of generate_consensus_motif that merges two motifs
MergeStep == pc = "call" /\ Len(motifs) >= 2 /\ pc' = "call"

UNDERSCORE == "_"

C21_Step ==
    MergeStep =>
        LET new == heap'[Len(heap')]
            id1 == heap[last'.merge_1].id
            id2 == heap[last'.merge_2].id
        IN /\ Len(heap') = Len(heap) + 1
           /\ Len(new.id) = Len(id1) + 1 + Len(id2)
           /\ SubSeq(new.id, 1, Len(id1)) = id1
           /\ new.id[Len(id1) + 1] = UNDERSCORE
           /\ SubSeq(new.id, Len(id1) + 2, Len(new.id)) = id2
           /\ \E i, j \in 1..Len(motifs) :
                i < j /\ motifs[i] = last'.merge_1 /\ motifs[j] = last'.merge_2

\* C21: the identifier of each averaged motif is merge_1.id + "_" + merge_2.id, merge_1
\* and merge_2 being the two merged parents, merge_1 before merge_2 in the working list
\* at the time of selection.
C21_AverageIdentifier == [][C21_Step]_vars

\* the second merge of a cluster of three motifs has named its average after an
\* averaged motif and an input motif
C21_Witness ==
    /\ pc = "call"
    /\ level = 2
    /\ Len(motifs) = 1
    /\ Len(heap[motifs[1]].id) = 5
    /\ heap[motifs[1]].id[2] = UNDERSCORE
    /\ heap[motifs[1]].id[4] = UNDERSCORE

C22_Step ==
    (pc = "returned" /\ pc' = "written") =>
        \A k \in 1..Len(consensus_motifs.keys) :
            LET cluster == consensus_motifs.keys[k]
                ref == consensus_motifs.val[cluster]
                old == heap[ref].id
                new == heap'[ref].id
            IN /\ Len(new) = Len(cluster) + 1 + Len(old)
               /\ SubSeq(new, 1, Len(cluster)) = cluster
               /\ new[Len(cluster) + 1] = UNDERSCORE
               /\ SubSeq(new, Len(cluster) + 2, Len(new)) = old

\* C22: after consensus_motif_out_wrapper has processed all clusters, the identifier of
\* each cluster's consensus motif is "<cluster label>_<the identifier the consensus had
\* when the builder returned it>", the prefix applied exactly once per cluster.
C22_ClusterPrefix == [][C22_Step]_vars

\* two clusters were relabelled, one of them with an averaged consensus
C22_Witness ==
    /\ pc = "written"
    /\ Len(consensus_motifs.keys) = 2
    /\ \E k \in Range(consensus_motifs.keys) : consensus_motifs.val[k] > Len(motif_list)
    /\ \A k \in Range(consensus_motifs.keys) :
         SubSeq(heap[consensus_motifs.val[k]].id, 1, Len(k)) = k

C26_Step ==
    MergeStep =>
        LET kept == SelectSeq(motifs, LAMBDA m : m \notin {last'.merge_1, last'.merge_2})
        IN /\ Len(kept) = Len(motifs) - 2
           /\ Len(motifs') = Len(motifs) - 1
           /\ SubSeq(motifs', 1, Len(motifs') - 1) = kept
           /\ motifs'[Len(motifs')] = Len(heap')
           /\ motifs'[Len(motifs')] \notin Range(motifs)
           /\ heap'[Len(heap')].pfm[1] = "average"

SomePairNonNegative ==
    \E p \in UnorderedPairs(Len(motifs)) : PairSim(heap, motifs, sim_dict, p[1], p[2]) >= 0

C27_Step ==
    (pc = "call" /\ Len(motifs) >= 2) =>
        IF SomePairNonNegative
        THEN /\ pc' = "call"
             /\ level' = level + 1
             /\ last'.merge_1 \in Range(motifs)
             /\ last'.merge_2 \in Range(motifs)
        ELSE /\ pc' = "failed"
             /\ error' = "UnboundLocalError"
             /\ consensus_motifs' = consensus_motifs
             /\ heap' = heap

\* C27: at every level with at least two motifs a merge pair is selected if and only if
\* some enumerated pair has similarity >= 0: with all similarities in [0, 1] the merge is
\* never reached without a pair, and with all of them negative no pair is selected and
\* the builder fails instead of returning a consensus.
C27_PairSelectedIffNonNegative == [][C27_Step]_vars

\* the builder failed on a list of two or more motifs whose similarities are all negative
C27_Witness ==
    /\ pc = "failed"
    /\ Len(motifs) >= 2
    /\ ~SomePairNonNegative
    /\ ~Has(consensus_motifs, clusters.keys[cur])

RECURSIVE JoinIds(_)
\* the identifiers of a non-empty list, joined by underscores
JoinIds(ids) ==
    IF Len(ids) = 1 THEN ids[1] ELSE ids[1] \o <<UNDERSCORE>> \o JoinIds(Tail(ids))

Perms(n) == {f \in [1..n -> 1..n] : \A i, j \in 1..n : f[i] = f[j] => i = j}

\* the identifiers of the motifs of the list whose identifier is a member of the cluster
MemberIds(key) ==
    LET ms == SelectSeq(motif_list, LAMBDA m : heap[m].id \in Range(clusters.val[key]))
    IN [i \in 1..Len(ms) |-> heap[ms[i]].id]

\* C30: for a cluster of k members with pairwise distinct identifiers and similarities
\* >= 0, the identifier of the consensus generate_consensus_motif returns (before the
\* cluster prefix is added) is a concatenation of the k members' original identifiers,
\* each exactly once, joined by exactly k-1 added underscores.
C30_ConsensusIdentifier ==
    (pc \in {"consensus", "returned"}) =>
        \A k \in 1..(cur - 1) :
            LET key == clusters.keys[k]
                ids == MemberIds(key)
                id == heap[consensus_motifs.val[key]].id
            IN /\ Len(ids) >= 1
               /\ Len(id) = SumOver(1..Len(ids), [i \in 1..Len(ids) |-> Len(ids[i])]) + Len(ids) - 1
               /\ \E f \in Perms(Len(ids)) : id = JoinIds([i \in 1..Len(ids) |-> ids[f[i]]])

\* the consensus of three members was returned, its identifier not in list order
C30_Witness ==
    /\ pc = "consensus"
    /\ cur = 2
    /\ Len(MemberIds(clusters.keys[1])) = 3
    /\ heap[consensus_motifs.val[clusters.keys[1]]].id # JoinIds(MemberIds(clusters.keys[1]))

\* the ScoreMap sd with other scores in the reverse direction of the list ids: the
\* entries [b][a], a before b in the list, are 0.9999 where a is the motif at position
\* hot and -0.3 elsewhere
ReverseVariant(sd, ids, hot) ==
    [sd EXCEPT !.val =
        [a \in DOMAIN sd.val |->
            [sd.val[a] EXCEPT !.val =
                [b \in DOMAIN sd.val[a].val |->
                    IF a \in Range(ids) /\ b \in Range(ids) /\ Pos(ids, b) < Pos(ids, a)
                    THEN IF Pos(ids, b) = hot THEN Score(9999, 7, 1) ELSE Score(-3000, 7, -1)
                    ELSE sd.val[a].val[b]]]]]

\* C29: pair selection reads only the forward score ScoreMap[a][b], a before b in the
\* working list: with a ScoreMap that differs only in the reverse entries ScoreMap[b][a]
\* the same pair is selected at that level (the distance matrix averages both
\* directions).
C29_ForwardScoresOnly ==
    (pc = "call" /\ Len(motifs) >= 2) =>
        \A hot \in 1..Len(motifs) :
            SelectPair(heap, motifs, ReverseVariant(sim_dict, IdsOf(heap, motifs), hot))
                = SelectPair(heap, motifs, sim_dict)

\* a level of three motifs whose selected pair is not the last one, with a ScoreMap
\* whose reverse entries can be changed
C29_Witness ==
    /\ pc = "call"
    /\ Len(motifs) = 3
    /\ ReverseVariant(sim_dict, IdsOf(heap, motifs), 1) # sim_dict
    /\ SelectPair(heap, motifs, sim_dict).bound
    /\ SelectPair(heap, motifs, sim_dict).merge_2 # motifs[3]

-----------------------------------------------------------------------------
(* Claims about the diagonal and about inputs left unchanged *)

\* the column labelled l has a diagonal entry, the one of the row labelled l
HasDiagonal(M, l) == l \in Range(M.index)

\* C28: a motif whose diagonal entry is less than or equal to the threshold is never
\* reported by get_dissimilar_motifs, whatever its distances to the other motifs; so for
\* a matrix whose diagonal is all 0 and a threshold >= 0 the result is the empty list.
C28_DiagonalDecides ==
    DissimilarComputed =>
        LET M == similarity_matrix
            cols == Range(M.columns)
        IN /\ \A l \in cols :
                (HasDiagonal(M, l) /\ Entry(M, l, l) <= threshold) => l \notin Range(dissimilar_motifs)
           /\ (threshold >= 0 /\ \A l \in cols : HasDiagonal(M, l) /\ Entry(M, l, l) = 0)
                => dissimilar_motifs = <<>>

\* at the default threshold a column before the last has every entry off the diagonal
\* above the threshold and a diagonal of 0, and nothing is reported
C28_Witness ==
    /\ DissimilarComputed
    /\ threshold = DefaultThreshold
    /\ Len(similarity_matrix.columns) = 3
    /\ IsSquare(similarity_matrix)
    /\ \A l \in Range(similarity_matrix.columns) : Entry(similarity_matrix, l, l) = 0
    /\ \A r \in 2..3 : similarity_matrix.data[r][1] > threshold
    /\ similarity_matrix.index[1] = similarity_matrix.columns[1]
    /\ dissimilar_motifs = <<>>

C24_Step ==
    /\ score_dict' = score_dict
    /\ threshold' = threshold
    /\ pc \in {"matrix", "stats"} => similarity_matrix' = similarity_matrix
    /\ pc' \in {"clustered", "failed"} /\ pc = "stats" =>
          get_dissimilar_motifs(similarity_matrix', threshold') = dissimilar_motifs

C25_Step ==
    /\ pc \in {"consensus", "call"} =>
          /\ motif_list' = motif_list
          /\ clusters' = clusters
          /\ score_dict' = score_dict
    /\ (pc = "consensus" /\ pc' = "call") =>
          /\ Range(motifs') \subseteq Range(motif_list)
          /\ level' = 0

-----------------------------------------------------------------------------
(* Claims about the independence of clusters *)

RECURSIVE Leaves(_)
\* the motifs read that a motif's matrix was averaged from
Leaves(pfm) == IF pfm[1] = "read" THEN {pfm[2]} ELSE Leaves(pfm[2]) \cup Leaves(pfm[3])

\* the motifs of the list whose row label is a member of the cluster being processed
CurrentMembers ==
    {k \in Range(motif_list) : ReplaceTab(heap[k].id) \in Range(clusters.val[clusters.keys[cur]])}

\* the ScoreMap sd with the score 0.9999 in every entry that has an identifier outside
\* ids as one of its two keys
OutsideVariant(sd, ids) ==
    [sd EXCEPT !.val =
        [a \in DOMAIN sd.val |->
            [sd.val[a] EXCEPT !.val =
                [b \in DOMAIN sd.val[a].val |->
                    IF a \in Range(ids) /\ b \in Range(ids)
                    THEN sd.val[a].val[b]
                    ELSE Score(9999, 7, -1)]]]]

\* C23: the consensus of a cluster depends only on the cluster's members and on the
\* ScoreMap entries among them: a cluster starts from the original ScoreMap and from
\* motifs as they were read, whatever was processed before it; every motif of its
\* working list is averaged from members of the cluster only; and with other scores in
\* the entries of motifs outside the working list the same pair is selected.
C23_ClusterIndependence ==
    pc = "call" =>
        /\ level = 0 =>
              /\ sim_dict = score_dict
              /\ \A i \in 1..Len(motifs) :
                    /\ motifs[i] \in Range(motif_list)
                    /\ heap[motifs[i]].pfm = <<"read", motifs[i]>>
        /\ \A i \in 1..Len(motifs) : Leaves(heap[motifs[i]].pfm) \subseteq CurrentMembers
        /\ Len(motifs) >= 2 =>
              SelectPair(heap, motifs, OutsideVariant(sim_dict, IdsOf(heap, motifs)))
                  = SelectPair(heap, motifs, sim_dict)

\* a second cluster of two motifs is started, with a motif of another cluster whose
\* scores can be changed
C23_Witness ==
    /\ pc = "call"
    /\ cur = 2
    /\ level = 0
    /\ Len(motifs) = 2
    /\ Len(consensus_motifs.keys) = 1
    /\ OutsideVariant(sim_dict, IdsOf(heap, motifs)) # sim_dict
    /\ SelectPair(heap, motifs, sim_dict).bound

====
